---- MODULE Spec2Model ----
(***************************************************************************)
(* The Keccak sponge of package keccak: the keccak-f[1600] permutation in  *)
(* its table-driven and its unrolled form, and the hash.Hash methods       *)
(* Write, Sum and Reset over a permutation state of 25 lanes, with the     *)
(* slices the methods receive and keep modelled as windows on arrays.      *)
(*                                                                         *)
(* A uint64 lane is the set of the positions (0 = least significant) of    *)
(* its one bits: XOR is the symmetric difference, AND the intersection,    *)
(* NOT the complement in 0..63, and a shift moves the positions and drops  *)
(* those that leave 0..63.  A byte is a number in 0..255.                  *)
(***************************************************************************)
EXTENDS Integers, Sequences, FiniteSets

\* ---------------------------------------------------------------- bounds

\* Bytes of the caller's array beyond one block.
Slack == 4
\* Calls made on one instance.
MaxOps == 2
\* Steps of a run that exercises the permutation alone.
MaxPerm == 3

\* ------------------------------------------------------------- constants

domainNone == 1
domainSHA3 == 6
domainSHAKE == 31

rounds == 24

\* The 24 round constants, as bit positions:
\*   [ 0] 0x0000000000000001
\*   [ 1] 0x0000000000008082
\*   [ 2] 0x800000000000808A
\*   [ 3] 0x8000000080008000
\*   [ 4] 0x000000000000808B
\*   [ 5] 0x0000000080000001
\*   [ 6] 0x8000000080008081
\*   [ 7] 0x8000000000008009
\*   [ 8] 0x000000000000008A
\*   [ 9] 0x0000000000000088
\*   [10] 0x0000000080008009
\*   [11] 0x000000008000000A
\*   [12] 0x000000008000808B
\*   [13] 0x800000000000008B
\*   [14] 0x8000000000008089
\*   [15] 0x8000000000008003
\*   [16] 0x8000000000008002
\*   [17] 0x8000000000000080
\*   [18] 0x000000000000800A
\*   [19] 0x800000008000000A
\*   [20] 0x8000000080008081
\*   [21] 0x8000000000008080
\*   [22] 0x0000000080000001
\*   [23] 0x8000000080008008
roundConstants == <<
    {0},
    {1, 7, 15},
    {1, 3, 7, 15, 63},
    {15, 31, 63},
    {0, 1, 3, 7, 15},
    {0, 31},
    {0, 7, 15, 31, 63},
    {0, 3, 15, 63},
    {1, 3, 7},
    {3, 7},
    {0, 3, 15, 31},
    {1, 3, 31},
    {0, 1, 3, 7, 15, 31},
    {0, 1, 3, 7, 63},
    {0, 3, 7, 15, 63},
    {0, 1, 15, 63},
    {1, 15, 63},
    {7, 63},
    {1, 3, 15},
    {1, 3, 31, 63},
    {0, 7, 15, 31, 63},
    {7, 15, 63},
    {0, 31},
    {3, 15, 31, 63} >>

rotationConstants ==
    <<1, 3, 6, 10, 15, 21, 28, 36, 45, 55, 2, 14, 27, 41, 56, 8,
      25, 43, 62, 18, 39, 61, 20, 44>>

piLane ==
    <<10, 7, 11, 17, 18, 3, 5, 16, 8, 21, 24, 4, 15, 23, 19, 13,
      12, 2, 20, 14, 22, 9, 6, 1>>

\* ------------------------------------------------------- uint64 as bits

LaneBits == 0..63
Lanes == 0..24

Xor(a, b) == (a \ b) \cup (b \ a)
Or(a, b) == a \cup b
Not(a) == LaneBits \ a
\* x << n and x >> n on a uint64: bits shifted out are lost.
Shl(x, n) == {i + n : i \in x \cap (0..(63 - n))}
Shr(x, n) == {i - n : i \in x \cap (n..63)}

rotl64(x, n) == Or(Shl(x, n), Shr(x, 64 - n))

\* ------------------------------------------ keccakf, the table-driven form

\* theta: the five column parities bc are all taken from the state as it
\* enters the step; column i then receives bc[(i+4)%5] ^ rotl64(bc[(i+1)%5], 1).
Theta(S) ==
    LET bc == [i \in 0..4 |->
                  Xor(Xor(Xor(Xor(S[i], S[5+i]), S[10+i]), S[15+i]), S[20+i])]
        t == [i \in 0..4 |-> Xor(bc[(i+4) % 5], rotl64(bc[(i+1) % 5], 1))]
    IN [l \in Lanes |-> Xor(S[l], t[l % 5])]

\* rho and pi: the loop over piLane, its variables S, temp and i as a record.
RECURSIVE RhoPiLoop(_)
RhoPiLoop(v) ==
    IF v.i = 24 THEN v.S
    ELSE LET j == piLane[v.i + 1]
         IN RhoPiLoop([S |-> [v.S EXCEPT ![j] = rotl64(v.temp, rotationConstants[v.i + 1])],
                       temp |-> v.S[j],
                       i |-> v.i + 1])

RhoPi(S) == RhoPiLoop([S |-> S, temp |-> S[1], i |-> 0])

\* chi with no copy of the row: lanes 3 and 4 of a row read the lanes 0 and
\* 1 already written.
ChiInPlace(S) ==
    [l \in Lanes |->
        LET j == l - (l % 5)
            i == l % 5
            n0 == Xor(S[j], Not(S[j + 1]) \cap S[j + 2])
            n1 == Xor(S[j + 1], Not(S[j + 2]) \cap S[j + 3])
        IN CASE i = 3 -> Xor(S[l], Not(S[j + 4]) \cap n0)
             [] i = 4 -> Xor(S[l], Not(n0) \cap n1)
             [] OTHER -> Xor(S[l], Not(S[j + ((i+1) % 5)]) \cap S[j + ((i+2) % 5)])]

\* chi: each row of five lanes is copied to bc before any lane of it is written.
Chi(S) ==
    [l \in Lanes |->
        LET j == l - (l % 5)
            i == l % 5
            bc == [c \in 0..4 |-> S[j + c]]
        IN Xor(S[l], Not(bc[(i+1) % 5]) \cap bc[(i+2) % 5])]

Iota(S, r) == [S EXCEPT ![0] = Xor(@, roundConstants[r + 1])]

Round(S, r) == Iota(Chi(RhoPi(Theta(S))), r)

RECURSIVE keccakfLoop(_)
keccakfLoop(v) ==
    IF v.r = rounds THEN v.S
    ELSE keccakfLoop([S |-> Round(v.S, v.r), r |-> v.r + 1])

keccakf(S) == keccakfLoop([S |-> S, r |-> 0])

\* ----------------------------------------------- keccakf, the unrolled form

UnrolledTheta(S) ==
    LET bc0 == Xor(Xor(Xor(Xor(S[0], S[5]), S[10]), S[15]), S[20])
        bc1 == Xor(Xor(Xor(Xor(S[1], S[6]), S[11]), S[16]), S[21])
        bc2 == Xor(Xor(Xor(Xor(S[2], S[7]), S[12]), S[17]), S[22])
        bc3 == Xor(Xor(Xor(Xor(S[3], S[8]), S[13]), S[18]), S[23])
        bc4 == Xor(Xor(Xor(Xor(S[4], S[9]), S[14]), S[19]), S[24])
        tmp0 == Xor(bc4, Or(Shl(bc1, 1), Shr(bc1, 64 - 1)))
        tmp1 == Xor(bc0, Or(Shl(bc2, 1), Shr(bc2, 64 - 1)))
        tmp2 == Xor(bc1, Or(Shl(bc3, 1), Shr(bc3, 64 - 1)))
        tmp3 == Xor(bc2, Or(Shl(bc4, 1), Shr(bc4, 64 - 1)))
        tmp4 == Xor(bc3, Or(Shl(bc0, 1), Shr(bc0, 64 - 1)))
    IN [S EXCEPT ![0] = Xor(@, tmp0), ![5] = Xor(@, tmp0), ![10] = Xor(@, tmp0), ![15] = Xor(@, tmp0), ![20] = Xor(@, tmp0),
                 ![1] = Xor(@, tmp1), ![6] = Xor(@, tmp1), ![11] = Xor(@, tmp1), ![16] = Xor(@, tmp1), ![21] = Xor(@, tmp1),
                 ![2] = Xor(@, tmp2), ![7] = Xor(@, tmp2), ![12] = Xor(@, tmp2), ![17] = Xor(@, tmp2), ![22] = Xor(@, tmp2),
                 ![3] = Xor(@, tmp3), ![8] = Xor(@, tmp3), ![13] = Xor(@, tmp3), ![18] = Xor(@, tmp3), ![23] = Xor(@, tmp3),
                 ![4] = Xor(@, tmp4), ![9] = Xor(@, tmp4), ![14] = Xor(@, tmp4), ![19] = Xor(@, tmp4), ![24] = Xor(@, tmp4)]

\* Each line "tmp, S[j] = S[j], tmp<<n | tmp>>(64-n)" reads S[j] before it
\* writes it, and no lane is written twice, so every tmp is a lane of the
\* state as it enters the step: the lane the line before wrote to.
UnrolledRhoPi(S) ==
    [S EXCEPT ![10] = Or(Shl(S[1], 1), Shr(S[1], 64 - 1)),
              ![7] = Or(Shl(S[10], 3), Shr(S[10], 64 - 3)),
              ![11] = Or(Shl(S[7], 6), Shr(S[7], 64 - 6)),
              ![17] = Or(Shl(S[11], 10), Shr(S[11], 64 - 10)),
              ![18] = Or(Shl(S[17], 15), Shr(S[17], 64 - 15)),
              ![3] = Or(Shl(S[18], 21), Shr(S[18], 64 - 21)),
              ![5] = Or(Shl(S[3], 28), Shr(S[3], 64 - 28)),
              ![16] = Or(Shl(S[5], 36), Shr(S[5], 64 - 36)),
              ![8] = Or(Shl(S[16], 45), Shr(S[16], 64 - 45)),
              ![21] = Or(Shl(S[8], 55), Shr(S[8], 64 - 55)),
              ![24] = Or(Shl(S[21], 2), Shr(S[21], 64 - 2)),
              ![4] = Or(Shl(S[24], 14), Shr(S[24], 64 - 14)),
              ![15] = Or(Shl(S[4], 27), Shr(S[4], 64 - 27)),
              ![23] = Or(Shl(S[15], 41), Shr(S[15], 64 - 41)),
              ![19] = Or(Shl(S[23], 56), Shr(S[23], 64 - 56)),
              ![13] = Or(Shl(S[19], 8), Shr(S[19], 64 - 8)),
              ![12] = Or(Shl(S[13], 25), Shr(S[13], 64 - 25)),
              ![2] = Or(Shl(S[12], 43), Shr(S[12], 64 - 43)),
              ![20] = Or(Shl(S[2], 62), Shr(S[2], 64 - 62)),
              ![14] = Or(Shl(S[20], 18), Shr(S[20], 64 - 18)),
              ![22] = Or(Shl(S[14], 39), Shr(S[14], 64 - 39)),
              ![9] = Or(Shl(S[22], 61), Shr(S[22], 64 - 61)),
              ![6] = Or(Shl(S[9], 20), Shr(S[9], 64 - 20)),
              ![1] = Or(Shl(S[6], 44), Shr(S[6], 64 - 44))]

\* bc holds the row as it was before the five assignments to it.
UnrolledChi(S) ==
    [S EXCEPT ![0] = Xor(@, Not(S[1]) \cap S[2]),
              ![1] = Xor(@, Not(S[2]) \cap S[3]),
              ![2] = Xor(@, Not(S[3]) \cap S[4]),
              ![3] = Xor(@, Not(S[4]) \cap S[0]),
              ![4] = Xor(@, Not(S[0]) \cap S[1]),
              ![5] = Xor(@, Not(S[6]) \cap S[7]),
              ![6] = Xor(@, Not(S[7]) \cap S[8]),
              ![7] = Xor(@, Not(S[8]) \cap S[9]),
              ![8] = Xor(@, Not(S[9]) \cap S[5]),
              ![9] = Xor(@, Not(S[5]) \cap S[6]),
              ![10] = Xor(@, Not(S[11]) \cap S[12]),
              ![11] = Xor(@, Not(S[12]) \cap S[13]),
              ![12] = Xor(@, Not(S[13]) \cap S[14]),
              ![13] = Xor(@, Not(S[14]) \cap S[10]),
              ![14] = Xor(@, Not(S[10]) \cap S[11]),
              ![15] = Xor(@, Not(S[16]) \cap S[17]),
              ![16] = Xor(@, Not(S[17]) \cap S[18]),
              ![17] = Xor(@, Not(S[18]) \cap S[19]),
              ![18] = Xor(@, Not(S[19]) \cap S[15]),
              ![19] = Xor(@, Not(S[15]) \cap S[16]),
              ![20] = Xor(@, Not(S[21]) \cap S[22]),
              ![21] = Xor(@, Not(S[22]) \cap S[23]),
              ![22] = Xor(@, Not(S[23]) \cap S[24]),
              ![23] = Xor(@, Not(S[24]) \cap S[20]),
              ![24] = Xor(@, Not(S[20]) \cap S[21])]

UnrolledRound(S, r) ==
    LET T == UnrolledChi(UnrolledRhoPi(UnrolledTheta(S)))
    IN [T EXCEPT ![0] = Xor(@, roundConstants[r + 1])]

RECURSIVE keccakfUnrolledLoop(_)
keccakfUnrolledLoop(v) ==
    IF v.r = rounds THEN v.S
    ELSE keccakfUnrolledLoop([S |-> UnrolledRound(v.S, v.r), r |-> v.r + 1])

keccakfUnrolled(S) == keccakfUnrolledLoop([S |-> S, r |-> 0])

\* ---------------------------------------------------- bytes and lanes

\* The bits of byte b, as positions 0..7.
ByteBits(b) == {t \in 0..7 : (b \div (2 ^ t)) % 2 = 1}

\* uint64le(v): v[0] | v[1]<<8 | ... | v[7]<<56, v a sequence of at least 8 bytes.
uint64le(v) == UNION {{8 * j + t : t \in ByteBits(v[j + 1])} : j \in 0..7}

\* byte(x >> (8*j)): the conversion to byte keeps the low eight bits.
ByteAt(x, j) ==
    LET bit(t) == IF 8 * j + t \in x THEN 2 ^ t ELSE 0
    IN bit(0) + bit(1) + bit(2) + bit(3) + bit(4) + bit(5) + bit(6) + bit(7)

\* putUint64le(v, x): the eight bytes written to v[0..7].
putUint64le(x) == [p \in 1..8 |-> ByteAt(x, p - 1)]

\* b | 0x80 on a byte.
Or80(b) == IF b >= 128 THEN b ELSE b + 128

\* ------------------------------------------------------------- slices
\* A []byte is a window [off, off+len) on an array, with room up to off+cap.
\* The arrays are: "mem", the caller's; "heap", the one append allocates
\* for k.buf; "res", the one append allocates for the result of Sum.  A new
\* array is modelled with no spare capacity: its spare room is reachable
\* through the slice that append returned only.

NilSlice == [base |-> "nil", off |-> 0, len |-> 0, cap |-> 0]

\* mem[lo:hi:max]
MemSlice(lo, hi, max) == [base |-> "mem", off |-> lo, len |-> hi - lo, cap |-> max - lo]

\* The bytes a slice shows.
Bytes(env, sl) ==
    IF sl.len = 0 THEN <<>> ELSE SubSeq(env[sl.base], sl.off + 1, sl.off + sl.len)

\* sl[:x] and sl[x:]
SliceTo(sl, x) == [sl EXCEPT !.len = x]
SliceFrom(sl, x) == [sl EXCEPT !.off = @ + x, !.len = @ - x, !.cap = @ - x]

\* arr with src stored from offset at on.
Store(arr, at, src) ==
    [p \in 1..Len(arr) |-> IF p > at /\ p <= at + Len(src) THEN src[p - at] ELSE arr[p]]

\* append(sl, src...): within the capacity the bytes are stored in sl's own
\* array, behind its window; otherwise a new array (named fresh) receives
\* the window's bytes and src.
append(env, sl, src, fresh) ==
    IF Len(src) = 0 THEN [env |-> env, sl |-> sl]
    ELSE IF sl.len + Len(src) <= sl.cap
         THEN [env |-> [env EXCEPT ![sl.base] = Store(@, sl.off + sl.len, src)],
               sl |-> [sl EXCEPT !.len = @ + Len(src)]]
         ELSE [env |-> [env EXCEPT ![fresh] = Bytes(env, sl) \o src],
               sl |-> [base |-> fresh, off |-> 0,
                       len |-> sl.len + Len(src), cap |-> sl.len + Len(src)]]

\* --------------------------------------------------------- the instance

Zero == [l \in Lanes |-> {}]

newKeccak(capacity, output, domain) ==
    [S |-> Zero,
     size |-> output \div 8,
     blockSize |-> 200 - capacity \div 8,
     buf |-> NilSlice,
     domain |-> domain]

New224 == newKeccak(224 * 2, 224, domainNone)
New256 == newKeccak(256 * 2, 256, domainNone)
New384 == newKeccak(384 * 2, 384, domainNone)
New512 == newKeccak(512 * 2, 512, domainNone)
NewSHA3224 == newKeccak(224 * 2, 224, domainSHA3)
NewSHA3256 == newKeccak(256 * 2, 256, domainSHA3)
NewSHA3384 == newKeccak(384 * 2, 384, domainSHA3)
NewSHA3512 == newKeccak(512 * 2, 512, domainSHA3)
NewSHAKE128(n) == newKeccak(128 * 2, n * 8, domainSHAKE)
NewSHAKE256(n) == newKeccak(256 * 2, n * 8, domainSHAKE)

\* absorb panics unless the block is one block long.
absorbPanics(k, block) == Len(block) # k.blockSize

absorb(k, block) ==
    [k EXCEPT !.S =
        keccakf([l \in Lanes |->
                    IF l < k.blockSize \div 8
                    THEN Xor(k.S[l], uint64le(SubSeq(block, l * 8 + 1, Len(block))))
                    ELSE k.S[l]])]

\* The loop of Write with the test len(b) > k.blockSize: a last whole block
\* stays pending.
RECURSIVE WriteLoopOver(_, _)
WriteLoopOver(v, env) ==
    IF v.b.len > v.k.blockSize
    THEN LET block == Bytes(env, SliceTo(v.b, v.k.blockSize))
         IN WriteLoopOver([k |-> absorb(v.k, block),
                           b |-> SliceFrom(v.b, v.k.blockSize),
                           blocks |-> v.blocks + 1,
                           panic |-> FALSE], env)
    ELSE [v EXCEPT !.k.buf = v.b]

\* The loop of Write over the whole blocks of b, then k.buf = b.  Nothing
\* is stored to an array here, so the bytes of b are those of env.
RECURSIVE WriteLoop(_, _)
WriteLoop(v, env) ==
    IF v.b.len >= v.k.blockSize
    THEN LET block == Bytes(env, SliceTo(v.b, v.k.blockSize))
         IN IF absorbPanics(v.k, block)
            THEN [v EXCEPT !.panic = TRUE]
            ELSE WriteLoop([k |-> absorb(v.k, block),
                            b |-> SliceFrom(v.b, v.k.blockSize),
                            blocks |-> v.blocks + 1,
                            panic |-> FALSE], env)
    ELSE [v EXCEPT !.k.buf = v.b]

\* Write(b): the instance and the arrays after the call, the int returned,
\* the number of blocks absorbed, and whether the call panicked.
Write(k, env, b) ==
    LET n == b.len
        x0 == k.blockSize - k.buf.len
        x == IF x0 > b.len THEN b.len ELSE x0
        a == append(env, k.buf, Bytes(env, SliceTo(b, x)), "heap")
        k1 == [k EXCEPT !.buf = a.sl]
        full == Bytes(a.env, a.sl)
        done(v, e) == [k |-> v.k, env |-> e, n |-> n, blocks |-> v.blocks, panic |-> v.panic]
    IN IF k.buf.len > 0
       THEN IF a.sl.len < k.blockSize
            THEN done([k |-> k1, blocks |-> 0, panic |-> FALSE], a.env)
            ELSE IF absorbPanics(k1, full)
                 THEN done([k |-> k1, blocks |-> 0, panic |-> TRUE], a.env)
                 ELSE done(WriteLoop([k |-> [absorb(k1, full) EXCEPT !.buf = NilSlice],
                                      b |-> SliceFrom(b, x),
                                      blocks |-> 1,
                                      panic |-> FALSE], a.env), a.env)
       ELSE done(WriteLoop([k |-> k, b |-> b, blocks |-> 0, panic |-> FALSE], env), env)

\* Reset that zeroes the lanes and keeps the pending bytes.
ResetLanesOnly(k) == [k EXCEPT !.S = [l \in Lanes |-> {}]]

Reset(k) == [k EXCEPT !.S = [l \in Lanes |-> {}], !.buf = NilSlice]

Size(k) == k.size

BlockSize(k) == k.blockSize

\* pad indexes padded[len(k.buf)] and padded[len(padded)-1].
padPanics(k) == k.buf.len >= k.blockSize \/ k.blockSize = 0

\* pad that stores 0x80 to the last byte, where pad ors it in.
padStore80(k, env, block) ==
    LET pending == Bytes(env, k.buf)
        copied == [p \in 1..k.blockSize |-> IF p <= Len(pending) THEN pending[p] ELSE 0]
        marked == Store(copied, k.buf.len, <<k.domain>>)
    IN Store(marked, k.blockSize - 1, <<128>>)

\* pad(block): block is not read; the pending bytes are taken from k.buf.
pad(k, env, block) ==
    LET made == [p \in 1..k.blockSize |-> 0]
        pending == Bytes(env, k.buf)
        copied == [p \in 1..k.blockSize |-> IF p <= Len(pending) THEN pending[p] ELSE made[p]]
        marked == Store(copied, k.buf.len, <<k.domain>>)
    IN Store(marked, k.blockSize - 1, <<Or80(marked[k.blockSize])>>)

\* final: the instance after absorbing the padded block, and the blocks
\* handed to absorb.
final(k, env) ==
    LET last == pad(k, env, Bytes(env, k.buf))
    IN [k |-> absorb(k, last), absorbed |-> <<last>>, panic |-> absorbPanics(k, last)]

\* The 200 bytes squeeze serialises the state to.
StateBytes(S) == [p \in 1..200 |-> ByteAt(S[(p - 1) \div 8], (p - 1) % 8)]

\* The loop of squeeze with the test n < k.blockSize: an output of whole
\* blocks costs one more keccakf and an empty append.
RECURSIVE squeezeLoopStrict(_)
squeezeLoopStrict(v) ==
    LET buf == StateBytes(v.k.S)
    IN IF v.n < v.k.blockSize
       THEN LET a == append(v.env, v.b, SubSeq(buf, 1, v.n), "res")
            IN [v EXCEPT !.env = a.env, !.b = a.sl, !.emits = Append(@, v.n)]
       ELSE LET a == append(v.env, v.b, SubSeq(buf, 1, v.k.blockSize), "res")
            IN squeezeLoopStrict([k |-> [v.k EXCEPT !.S = keccakf(v.k.S)],
                                  n |-> v.n - v.k.blockSize,
                                  env |-> a.env,
                                  b |-> a.sl,
                                  emits |-> Append(v.emits, v.k.blockSize),
                                  perms |-> v.perms + 1])

\* The loop of squeeze with the last append taken from the end of the block:
\* buf[blockSize-n:blockSize] where squeeze takes buf[:n].
RECURSIVE squeezeLoopTail(_)
squeezeLoopTail(v) ==
    LET buf == StateBytes(v.k.S)
    IN IF v.n <= v.k.blockSize
       THEN LET a == append(v.env, v.b,
                            SubSeq(buf, v.k.blockSize - v.n + 1, v.k.blockSize), "res")
            IN [v EXCEPT !.env = a.env, !.b = a.sl, !.emits = Append(@, v.n)]
       ELSE LET a == append(v.env, v.b, SubSeq(buf, 1, v.k.blockSize), "res")
            IN squeezeLoopTail([k |-> [v.k EXCEPT !.S = keccakf(v.k.S)],
                                n |-> v.n - v.k.blockSize,
                                env |-> a.env,
                                b |-> a.sl,
                                emits |-> Append(v.emits, v.k.blockSize),
                                perms |-> v.perms + 1])

\* The loop of squeeze: v.b grows by one append per pass.
RECURSIVE squeezeLoop(_)
squeezeLoop(v) ==
    LET buf == StateBytes(v.k.S)
    IN IF v.n <= v.k.blockSize
       THEN LET a == append(v.env, v.b, SubSeq(buf, 1, v.n), "res")
            IN [v EXCEPT !.env = a.env, !.b = a.sl, !.emits = Append(@, v.n)]
       ELSE LET a == append(v.env, v.b, SubSeq(buf, 1, v.k.blockSize), "res")
            IN squeezeLoop([k |-> [v.k EXCEPT !.S = keccakf(v.k.S)],
                            n |-> v.n - v.k.blockSize,
                            env |-> a.env,
                            b |-> a.sl,
                            emits |-> Append(v.emits, v.k.blockSize),
                            perms |-> v.perms + 1])

\* squeeze(b): the slice returned, the arrays after it, the length of each
\* append and the number of calls of keccakf.
squeeze(k, env, b) ==
    squeezeLoop([k |-> k, n |-> k.size, env |-> env, b |-> b, emits |-> <<>>, perms |-> 0])

\* Sum(b) from final on: the squeeze of the finalised copy f into b.
SumFrom(k, f, env, b) ==
    LET sq == squeeze(f.k, env, b)
    IN IF padPanics(k) \/ f.panic
       THEN [env |-> env, out |-> <<>>, absorbed |-> <<>>, emits |-> <<>>, perms |-> 0,
             panic |-> TRUE]
       ELSE [env |-> sq.env, out |-> Bytes(sq.env, sq.b), absorbed |-> f.absorbed,
             emits |-> sq.emits, perms |-> sq.perms, panic |-> FALSE]

\* Sum(b) works on k, a copy of *k0 whose buf is the same slice as k0.buf:
\* the slice returned as bytes, the arrays after the call, the blocks
\* absorbed, the length of each append and the number of calls of keccakf
\* by squeeze.
Sum(k0, env, b) ==
    LET k == k0
    IN SumFrom(k, final(k, env), env, b)

\* ------------------------------------------------------------ the state

VARIABLES
    k,         \* the instance
    fam,       \* the constructor that made it, and its argument
    mem,       \* the caller's array
    heap,      \* the array append allocated for k.buf, <<>> when k.buf is not in it
    written,   \* the bytes handed to Write since construction or Reset, as they were at each call
    call,      \* the last call: its arguments and results, and the state before it
    panicked,  \* a call panicked
    steps,     \* calls made
    perm       \* a permutation state, for the runs of keccakf alone

vars == <<k, fam, mem, heap, written, call, panicked, steps, perm>>

Construct(f) ==
    CASE f.ctor = "New224" -> New224
      [] f.ctor = "New256" -> New256
      [] f.ctor = "New384" -> New384
      [] f.ctor = "New512" -> New512
      [] f.ctor = "NewSHA3224" -> NewSHA3224
      [] f.ctor = "NewSHA3256" -> NewSHA3256
      [] f.ctor = "NewSHA3384" -> NewSHA3384
      [] f.ctor = "NewSHA3512" -> NewSHA3512
      [] f.ctor = "NewSHAKE128" -> NewSHAKE128(f.n)
      [] f.ctor = "NewSHAKE256" -> NewSHAKE256(f.n)

\* The instances a run starts from: a legacy one, a SHA-3 one, SHAKE with
\* no output and SHAKE with two blocks of output.
Families ==
    {[ctor |-> "New224", n |-> 0],
     [ctor |-> "NewSHA3512", n |-> 0],
     [ctor |-> "NewSHAKE128", n |-> 0],
     [ctor |-> "NewSHAKE256", n |-> 2 * 136]}

\* The caller's array holds one block and Slack bytes more.
MemLen(bs) == bs + Slack

Pattern(len) == [p \in 1..len |-> ((p - 1) * 7 + 3) % 256]

Env == [mem |-> mem, heap |-> heap, res |-> <<>>]

Pending == Bytes(Env, k.buf)

\* What a caller passes to Write: nil; one byte with room behind it; a slice
\* over more than a block; one of a block less one byte that starts inside
\* the first; one of a block exactly; a short one with no room behind it.
WriteArgs(bs) ==
    {NilSlice,
     MemSlice(0, 1, MemLen(bs)),
     MemSlice(0, bs + 2, MemLen(bs)),
     MemSlice(1, bs, MemLen(bs)),
     MemSlice(0, bs, MemLen(bs)),
     MemSlice(2, 4, 4)}

\* What a caller passes to Sum: nil, and two bytes with room behind them.
SumArgs(bs) == {NilSlice, MemSlice(0, 2, MemLen(bs))}

NoCall ==
    [op |-> "New", arg |-> <<>>, ret |-> 0, err |-> "nil", blocks |-> 0, out |-> <<>>,
     absorbed |-> <<>>, emits |-> <<>>, perms |-> 0,
     preS |-> Zero, prePending |-> <<>>, preMem |-> <<>>]

Before == [NoCall EXCEPT !.preS = k.S, !.prePending = Pending, !.preMem = mem]

Init ==
    /\ fam \in Families
    /\ k = Construct(fam)
    /\ mem = Pattern(MemLen(k.blockSize))
    /\ heap = <<>>
    /\ written = <<>>
    /\ call = NoCall
    /\ panicked = FALSE
    /\ steps = 0
    /\ perm = Zero

CallWrite(b) ==
    /\ steps < MaxOps /\ ~panicked
    /\ \E w \in {Write(k, Env, b)} :
          /\ k' = w.k
          /\ mem' = w.env.mem
          /\ heap' = IF w.k.buf.base = "heap" THEN w.env.heap ELSE <<>>
          /\ call' = [Before EXCEPT !.op = "Write", !.arg = Bytes(Env, b),
                                    !.ret = w.n, !.blocks = w.blocks]
          /\ panicked' = w.panic
    /\ written' = written \o Bytes(Env, b)
    /\ steps' = steps + 1
    /\ UNCHANGED <<fam, perm>>

\* Sum with each argument of args; final does not read the argument.
CallSum(args) ==
    /\ steps < MaxOps /\ ~panicked
    /\ \E f \in {final(k, Env)} : \E b \in args : \E s \in {SumFrom(k, f, Env, b)} :
          /\ mem' = s.env.mem
          /\ call' = [Before EXCEPT !.op = "Sum", !.arg = Bytes(Env, b), !.out = s.out,
                                    !.absorbed = s.absorbed, !.emits = s.emits,
                                    !.perms = s.perms]
          /\ panicked' = s.panic
    /\ steps' = steps + 1
    /\ UNCHANGED <<k, fam, heap, written, perm>>

CallReset ==
    /\ steps < MaxOps /\ ~panicked
    /\ k' = Reset(k)
    /\ heap' = <<>>
    /\ written' = <<>>
    /\ call' = [Before EXCEPT !.op = "Reset"]
    /\ steps' = steps + 1
    /\ UNCHANGED <<fam, mem, panicked, perm>>

\* The caller stores to its own array: it reuses the first two bytes.
CallerStore ==
    /\ steps < MaxOps /\ ~panicked
    /\ mem' = Store(mem, 0, <<165, 90>>)
    /\ call' = [Before EXCEPT !.op = "Store"]
    /\ steps' = steps + 1
    /\ UNCHANGED <<k, fam, heap, written, panicked, perm>>

\* The methods of hash.Hash, called in any order.
Next ==
    \/ \E b \in WriteArgs(k.blockSize) : CallWrite(b)
    \/ CallSum(SumArgs(k.blockSize))
    \/ CallReset

Spec == Init /\ [][Next]_vars

\* Write alone: nothing but Write stores to any array.
NextWrites == \E b \in WriteArgs(k.blockSize) : CallWrite(b)

SpecWrites == Init /\ [][NextWrites]_vars

\* A caller that reuses its array between the calls.
NextStore ==
    \/ \E b \in WriteArgs(k.blockSize) : CallWrite(b)
    \/ CallerStore
    \/ CallSum({NilSlice})

SpecStore == Init /\ [][NextStore]_vars

\* SHAKE instances of several output lengths, written to and summed.
XofFamilies ==
    {[ctor |-> "NewSHAKE128", n |-> 0],
     [ctor |-> "NewSHAKE128", n |-> 1],
     [ctor |-> "NewSHAKE128", n |-> 168],
     [ctor |-> "NewSHAKE256", n |-> 0],
     [ctor |-> "NewSHAKE256", n |-> 1],
     [ctor |-> "NewSHAKE256", n |-> 136]}

XofWriteArgs(bs) ==
    {MemSlice(0, 1, MemLen(bs)),
     MemSlice(0, bs + 2, MemLen(bs)),
     MemSlice(2, 4, 4)}

InitXOF ==
    /\ fam \in XofFamilies
    /\ k = Construct(fam)
    /\ mem = Pattern(MemLen(k.blockSize))
    /\ heap = <<>>
    /\ written = <<>>
    /\ call = NoCall
    /\ panicked = FALSE
    /\ steps = 0
    /\ perm = Zero

NextXOF ==
    \/ \E b \in XofWriteArgs(k.blockSize) : CallWrite(b)
    \/ CallSum({NilSlice})

SpecXOF == InitXOF /\ [][NextXOF]_vars

\* keccakf alone, on states built lane by lane and by keccakf itself.
PermLanes == {0, 24}

PermValues == {LaneBits, {0, 63}}

InitPerm ==
    /\ fam = [ctor |-> "New256", n |-> 0]
    /\ k = Construct(fam)
    /\ mem = <<>>
    /\ heap = <<>>
    /\ written = <<>>
    /\ call = NoCall
    /\ panicked = FALSE
    /\ steps = 0
    /\ perm = Zero

PermSet(l, x) ==
    /\ steps < MaxPerm
    /\ perm' = [perm EXCEPT ![l] = x]
    /\ call' = [NoCall EXCEPT !.op = "set", !.preS = perm]
    /\ steps' = steps + 1
    /\ UNCHANGED <<k, fam, mem, heap, written, panicked>>

PermApply ==
    /\ steps < MaxPerm
    /\ perm' = keccakf(perm)
    /\ call' = [NoCall EXCEPT !.op = "keccakf", !.preS = perm]
    /\ steps' = steps + 1
    /\ UNCHANGED <<k, fam, mem, heap, written, panicked>>

NextPerm ==
    \/ \E l \in PermLanes, x \in PermValues : PermSet(l, x)
    \/ PermApply

SpecPerm == InitPerm /\ [][NextPerm]_vars

\* ------------------------------------------------------------ the claims

IsPrefix(a, b) == Len(a) <= Len(b) /\ SubSeq(b, 1, Len(a)) = a

\* A new instance of family f given the bytes m in one Write, from an array
\* that holds m and nothing else.
One(f, m) ==
    Write(Construct(f), [mem |-> m, heap |-> <<>>, res |-> <<>>], MemSlice(0, Len(m), Len(m)))

\* The digest of m: Sum(nil) of that instance.
DigestOf(f, m) ==
    LET one == One(f, m)
    IN Sum(one.k, one.env, NilSlice).out

\* C1. Streaming equivalence: after Write(c1)..Write(ck) the lanes and the
\* pending bytes are those of a new instance of the same family after the
\* single call Write(c1 ++ ... ++ ck).
C1_StreamingEquivalence ==
    LET one == One(fam, written)
    IN /\ k.S = one.k.S
       /\ Pending = Bytes(one.env, one.k.buf)

\* C2. Sum observes only: a Sum leaves the lanes and the pending bytes as
\* they were, and returns its argument followed by the digest of all the
\* bytes written so far.
C2_SumObservesOnly ==
    call.op = "Sum" =>
        /\ k.S = call.preS
        /\ Pending = call.prePending
        /\ call.out = call.arg \o DigestOf(fam, written)

\* C3. Sum(extra) returns extra followed by exactly Size() bytes, appended
\* in blocks of the rate but for the last, with keccakf called between two
\* appends and never after the last: ceil(n/rate)-1 times for n > 0, and
\* not at all for n = 0.
C3_SumAppendsSizeBytes ==
    call.op = "Sum" =>
        LET n == Size(k)
            bs == BlockSize(k)
            between == IF n = 0 THEN 0 ELSE (n + bs - 1) \div bs - 1
        IN /\ Len(call.out) = Len(call.arg) + n
           /\ SubSeq(call.out, 1, Len(call.arg)) = call.arg
           /\ call.perms = between
           /\ Len(call.emits) = between + 1
           /\ \A i \in 1..between : call.emits[i] = bs
           /\ call.emits[between + 1] = n - between * bs

\* C3: a Sum with a non-empty argument and an output of several whole blocks.
C3_Witness ==
    /\ call.op = "Sum"
    /\ call.arg # <<>>
    /\ Size(k) > BlockSize(k)
    /\ Size(k) % BlockSize(k) = 0
    /\ call.perms = 1

\* C4. Reset restores the instance as constructed: all lanes zero, no
\* pending bytes, and the rate, output length and domain byte of its family.
C4_ResetRestoresNew ==
    call.op = "Reset" =>
        /\ k = Construct(fam)
        /\ Pending = <<>>
        /\ \A l \in Lanes : k.S[l] = {}

\* C4: a Reset of an instance that had absorbed a block and held pending bytes.
C4_Witness ==
    /\ call.op = "Reset"
    /\ call.preS # Zero
    /\ call.prePending # <<>>

\* C5. No call panics: absorb is only handed blocks of the rate, pad indexes
\* inside its block, fewer than rate bytes are pending after every call, and
\* Write returns the length of its argument and a nil error.
C5_NoPanic ==
    /\ ~panicked
    /\ k.blockSize > 0
    /\ k.buf.len < k.blockSize
    /\ call.op = "Write" => (call.ret = Len(call.arg) /\ call.err = "nil")
    /\ call.op = "Sum" => \A i \in 1..Len(call.absorbed) : Len(call.absorbed[i]) = k.blockSize

\* C5: a Write of one block exactly, absorbed by the loop, nothing left pending.
C5_Witness ==
    /\ call.op = "Write"
    /\ Len(call.arg) = k.blockSize
    /\ call.blocks = 1
    /\ call.prePending = <<>>
    /\ k.buf.len = 0

\* The output of the instance made with output length n and given the same
\* Writes: Write neither reads nor writes size, so that instance is k with
\* size n, and final does not read size either.
XofOut(f, n) == SumFrom([k EXCEPT !.size = n], [f EXCEPT !.k.size = n], Env, NilSlice).out

\* C6. The n bytes of SHAKE output are a prefix of the 2n bytes, and of the
\* m bytes for a longer m, also across the end of a block.
C6_ShakePrefix ==
    LET f == final(k, Env)
        n == k.size
        short == XofOut(f, n)
    IN /\ IsPrefix(short, XofOut(f, 2 * n))
       /\ IsPrefix(short, XofOut(f, n + k.blockSize))
       /\ Len(short) = n
       /\ call.op = "Sum" => call.out = short

\* C6: a SHAKE instance of one block of output, summed after it absorbed a
\* block and kept pending bytes.
C6_Witness ==
    /\ call.op = "Sum"
    /\ k.domain = domainSHAKE
    /\ k.size = k.blockSize
    /\ k.S # Zero
    /\ Pending # <<>>

\* C7. The pending bytes are the instance's own: a store of the caller to
\* its array after Write has returned leaves them as they were, and a later
\* Sum returns the digest of the bytes as they were at the calls of Write.
C7_PendingIsolated ==
    /\ call.op = "Store" => Pending = call.prePending
    /\ call.op = "Sum" => call.out = DigestOf(fam, written)

\* C8. Write stores to no byte of the caller's array.
C8_WriteReadsOnly == call.op = "Write" => mem = call.preMem

\* The block the claim describes for pending bytes p, rate bs and domain byte d.
PaddedAsClaimed(p, bs, d) ==
    [i \in 1..bs |->
        IF i <= Len(p) THEN p[i]
        ELSE IF i = Len(p) + 1 THEN (IF i = bs THEN d + 128 ELSE d)
        ELSE IF i = bs THEN 128
        ELSE 0]

\* C9. Finalisation absorbs exactly one block of the rate: the pending
\* bytes, the domain byte behind them, zeros, and 0x80 or-ed into the last
\* byte.
C9_Padding ==
    call.op = "Sum" =>
        call.absorbed = <<PaddedAsClaimed(call.prePending, k.blockSize, k.domain)>>

\* C9: a Sum with rate-1 bytes pending: the domain byte and 0x80 share a byte.
C9_Witness ==
    /\ call.op = "Sum"
    /\ Len(call.prePending) = k.blockSize - 1
    /\ call.absorbed[1][k.blockSize] = k.domain + 128

\* The round as the claim describes it.
ClaimedTheta(S) ==
    LET parity == [c \in 0..4 |-> Xor(Xor(Xor(Xor(S[c], S[c+5]), S[c+10]), S[c+15]), S[c+20])]
        d == [c \in 0..4 |-> Xor(parity[(c+4) % 5], {(i + 1) % 64 : i \in parity[(c+1) % 5]})]
    IN [l \in Lanes |-> Xor(S[l], d[l % 5])]

\* The carry walk: step i writes to lane piLane[i] the lane the step before
\* wrote to (lane 1 for the first), rotated by rotationConstants[i].
ClaimedRhoPi(S) ==
    [l \in Lanes |->
        IF l = 0 THEN S[0]
        ELSE LET i == CHOOSE i \in 1..24 : piLane[i] = l
                 from == IF i = 1 THEN 1 ELSE piLane[i - 1]
             IN {(b + rotationConstants[i]) % 64 : b \in S[from]}]

ClaimedChi(S) ==
    [l \in Lanes |->
        LET row == l - (l % 5)
            i == l % 5
        IN Xor(S[l], S[row + ((i+2) % 5)] \ S[row + ((i+1) % 5)])]

ClaimedRound(S, r) ==
    LET T == ClaimedChi(ClaimedRhoPi(ClaimedTheta(S)))
    IN [l \in Lanes |-> IF l = 0 THEN Xor(T[0], roundConstants[r + 1]) ELSE T[l]]

\* 24 rounds, counted in v.r.
RECURSIVE ClaimedRounds(_)
ClaimedRounds(v) ==
    IF v.r = 24 THEN v.S ELSE ClaimedRounds([S |-> ClaimedRound(v.S, v.r), r |-> v.r + 1])

\* C10. keccakf is 24 rounds of theta, rho and pi, chi and iota as the
\* claim describes them, and its unrolled form computes the same state.
C10_PermutationConformance ==
    /\ keccakf(perm) = keccakfUnrolled(perm)
    /\ \A r \in {0, rounds - 1} : Round(perm, r) = ClaimedRound(perm, r)
    /\ RhoPi(perm)[0] = perm[0]
    /\ \A l \in Lanes \ {0} : Iota(perm, 0)[l] = perm[l]
    /\ call.op = "keccakf" => perm = ClaimedRounds([S |-> call.preS, r |-> 0])

\* C10: keccakf applied to a state that an earlier keccakf produced.
C10_Witness ==
    /\ call.op = "keccakf"
    /\ call.preS # Zero
    /\ \A l \in Lanes : call.preS[l] # {} /\ call.preS[l] # LaneBits

====
